---- MODULE Spec2Model ----
(***************************************************************************)
(* A model of caffix/service: BaseService (base.go), its lifecycle         *)
(* (Start / Stop), the request path (Request / queueRequest) and the       *)
(* dispatcher goroutine (processRequests).                                 *)
(*                                                                         *)
(* Every access to shared memory is one step: running() and setRunning()   *)
(* take the service mutex separately, bas.done is read and written with no *)
(* lock at all, and the queue has its own lock.  The unsynchronised        *)
(* accesses to bas.done are a data race; a racing read returns the old or  *)
(* the new channel, which the interleaving of the steps enumerates.        *)
(*                                                                         *)
(* The queue (github.com/caffix/queue) is a collaborator: a FIFO with      *)
(* Append, Len, Process and a Signal channel holding at most one token.    *)
(***************************************************************************)
EXTENDS Integers, Sequences, FiniteSets, TLC

\* ---------------------------------------------------------------- bounds
\* the goroutines that call Start, Stop and Request
Callers == {"a", "b"}
\* the one caller of the specification Spec
Client == "a"
\* number of Start calls that may pass the running() check
MaxStarts == 2
\* number of Request calls
MaxReqs == 3

\* context.TODO()/Background() never cancel; "c" is a context.WithCancel
Ctxs == {"bg", "c"}

Chans == 1..MaxStarts
Disps == 1..MaxStarts
NilChan == 0
NoRet == <<"none", "none">>
NilLimiter == 0

Range(f) == {f[i] : i \in DOMAIN f}

\* a caller is "idle" between calls; inside Start, after the running() check:
StartPcs == {"start_go", "start_set", "start_hook"}
\* inside Stop, after the running() check:
StopPcs == {"stop_set", "stop_close", "stop_hook"}

VARIABLES
  runs,       \* BaseService.runs
  done,       \* BaseService.done: NilChan or a channel
  closed,     \* the channels that have been closed
  panicked,   \* the process died of "close of closed channel"
  queue,      \* the elements of BaseService.queue, oldest first (request ids)
  signal,     \* the token of queue.Signal()
  reqs,       \* request id -> its context, in the order of the appends
  cancelled,  \* context "c" has been cancelled
  cpc,        \* caller -> where it is in its call
  cctx,       \* caller -> the context of the Request call in progress
  ret,        \* <<operation, result>> a call returned in the last step, or NoRet
  dpc,        \* dispatcher goroutine -> where it is in processRequests
  dch,        \* dispatcher -> the channel its blocking select waits on
  delem,      \* dispatcher -> the element it took from the queue (0: none)
  nstart,     \* goroutines spawned so far (also the channels made so far)
  handled,    \* history: request ids in the order OnRequest was invoked
  deadAtDeq,  \* history: requests whose context was cancelled at dequeue
  dropped,    \* history: requests each() returned from without the call
  life,       \* history of the lifecycle calls (see LifeInit)
  rlimit,     \* BaseService.rlimit: NilLimiter or a limiter
  lims,       \* the limiters made so far: limiter -> [rate, last]
  now,        \* the clock, in ticks
  hpc,        \* where the handler is in OnRequest / CheckRateLimit
  hlim,       \* the limiter CheckRateLimit read from bas.rlimit
  hseen,      \* history: the values of bas.rlimit since CheckRateLimit was called
  htarget,    \* the time Take sleeps until
  tinv        \* history: [t, lim] at the start of each OnRequest invocation

svc == <<runs, done, closed, panicked, nstart>>
que == <<queue, signal, reqs>>
dsp == <<dpc, dch, delem>>
hist == <<handled, deadAtDeq, dropped, life>>
rl == <<rlimit, lims, now, hpc, hlim, hseen, htarget, tinv>>
core == <<svc, que, cancelled, cpc, cctx, ret, dsp, hist>>
vars == <<runs, done, closed, panicked, queue, signal, reqs, cancelled,
          cpc, cctx, ret, dpc, dch, delem, nstart, handled, deadAtDeq, dropped,
          life, rlimit, lims, now, hpc, hlim, hseen, htarget, tinv>>

\* ---------------------------------------------------------------- history
\* startReturned: some Start call that passed its check has returned
\* stopReturned:  some Stop call that passed its check has returned
\* quiet:         such a Stop has returned, and no Start call overlapped it
\*                or has passed its check since
\* clean:         the callers inside Stop that no Start call has overlapped
\* hookFailed:    the latest Start to return returned the error of OnStart,
\*                and no Stop call has passed its check since
\* atStop:        <<r, n>>: request r was in the queue when a Stop that no
\*                Start call overlapped returned, n goroutines spawned so far;
\*                kept until each() has dropped r or called OnRequest for it
LifeInit ==
  [startReturned |-> FALSE, stopReturned |-> FALSE, quiet |-> FALSE,
   clean |-> {}, hookFailed |-> FALSE, atStop |-> {}]

InStart(c) == cpc[c] \in StartPcs
InStop(c) == cpc[c] \in StopPcs

\* ---------------------------------------------------------------- state
Init ==
  /\ runs = FALSE
  /\ done = NilChan
  /\ closed = {}
  /\ panicked = FALSE
  /\ queue = <<>>
  /\ signal = FALSE
  /\ reqs = <<>>
  /\ cancelled = FALSE
  /\ cpc = [c \in Callers |-> "idle"]
  /\ cctx = [c \in Callers |-> "bg"]
  /\ ret = NoRet
  /\ dpc = [d \in Disps |-> "none"]
  /\ dch = [d \in Disps |-> NilChan]
  /\ delem = [d \in Disps |-> 0]
  /\ nstart = 0
  /\ handled = <<>>
  /\ deadAtDeq = {}
  /\ dropped = {}
  /\ life = LifeInit
  /\ rlimit = NilLimiter
  /\ lims = <<>>
  /\ now = 0
  /\ hpc = "idle"
  /\ hlim = NilLimiter
  /\ hseen = {}
  /\ htarget = 0
  /\ tinv = <<>>

\* bas.running()
running == runs

\* <-ctx.Done() is ready
CtxDone(x) == x = "c" /\ cancelled

\* A panic ends the process: no action is enabled once panicked.

\* <-ch is ready: a closed channel; a nil channel never is
ChanDone(ch) == ch \in closed

\* ---------------------------------------------------------------- Start
\* Starts that passed the check and have not spawned their goroutine yet
PendingStarts == Cardinality({c \in Callers : cpc[c] = "start_go"})

\* StartCheck without the running() test: every Start goes ahead
StartCheck_Unguarded(c) ==
  /\ ~panicked
  /\ UNCHANGED rl
  /\ cpc[c] = "idle"
  /\ nstart + PendingStarts < MaxStarts
  /\ cpc' = [cpc EXCEPT ![c] = "start_go"]
  /\ life' = [life EXCEPT !.quiet = FALSE, !.clean = {}]
  /\ ret' = NoRet
  /\ UNCHANGED <<svc, que, cancelled, cctx, dsp, handled, deadAtDeq, dropped>>

\* if bas.running() { return errors.New(... "has already been started") }
StartCheck(c) ==
  /\ ~panicked
  /\ UNCHANGED rl
  /\ cpc[c] = "idle"
  /\ IF running
       THEN /\ ret' = <<"Start", "already_started">>
            /\ UNCHANGED <<cpc, life>>
       ELSE /\ nstart + PendingStarts < MaxStarts
            /\ cpc' = [cpc EXCEPT ![c] = "start_go"]
            /\ life' = [life EXCEPT !.quiet = FALSE, !.clean = {}]
            /\ ret' = NoRet
  /\ UNCHANGED <<svc, que, cancelled, cctx, dsp, handled, deadAtDeq, dropped>>

\* StartSpawn that keeps the channel of the previous run (the done channel made
\* once, as in a constructor) instead of making a new one
StartSpawn_KeepDone(c) ==
  /\ ~panicked
  /\ UNCHANGED rl
  /\ cpc[c] = "start_go"
  /\ nstart' = nstart + 1
  /\ done' = IF done = NilChan THEN nstart + 1 ELSE done
  /\ dpc' = [dpc EXCEPT ![nstart + 1] = "select"]
  /\ cpc' = [cpc EXCEPT ![c] = "start_set"]
  /\ ret' = NoRet
  /\ UNCHANGED <<runs, closed, panicked, que, cancelled, cctx, dch, delem, hist>>

\* bas.done = make(chan struct{}); go bas.processRequests()
StartSpawn(c) ==
  /\ ~panicked
  /\ UNCHANGED rl
  /\ cpc[c] = "start_go"
  /\ nstart' = nstart + 1
  /\ done' = nstart + 1
  /\ dpc' = [dpc EXCEPT ![nstart + 1] = "select"]
  /\ cpc' = [cpc EXCEPT ![c] = "start_set"]
  /\ ret' = NoRet
  /\ UNCHANGED <<runs, closed, panicked, que, cancelled, cctx, dch, delem, hist>>

\* bas.setRunning(true)
StartSetRunning(c) ==
  /\ ~panicked
  /\ UNCHANGED rl
  /\ cpc[c] = "start_set"
  /\ runs' = TRUE
  /\ cpc' = [cpc EXCEPT ![c] = "start_hook"]
  /\ ret' = NoRet
  /\ UNCHANGED <<done, closed, panicked, nstart, que, cancelled, cctx, dsp, hist>>

\* a Start that undoes setRunning(true) when OnStart fails
StartOnStart_Rollback(c) ==
  /\ ~panicked
  /\ UNCHANGED rl
  /\ cpc[c] = "start_hook"
  /\ \E e \in {"nil", "hook_error"} :
       /\ ret' = <<"Start", e>>
       /\ life' = [life EXCEPT !.startReturned = TRUE,
                               !.hookFailed = (e = "hook_error")]
       /\ runs' = IF e = "hook_error" THEN FALSE ELSE runs
  /\ cpc' = [cpc EXCEPT ![c] = "idle"]
  /\ UNCHANGED <<done, closed, panicked, nstart, que, cancelled, cctx, dsp,
                 handled, deadAtDeq, dropped>>

\* return bas.service.OnStart()
StartOnStart(c) ==
  /\ ~panicked
  /\ UNCHANGED rl
  /\ cpc[c] = "start_hook"
  /\ \E e \in {"nil", "hook_error"} :
       /\ ret' = <<"Start", e>>
       /\ life' = [life EXCEPT !.startReturned = TRUE,
                               !.hookFailed = (e = "hook_error")]
  /\ cpc' = [cpc EXCEPT ![c] = "idle"]
  /\ UNCHANGED <<svc, que, cancelled, cctx, dsp, handled, deadAtDeq, dropped>>

Start(c) ==
  \/ StartCheck(c)
  \/ StartSpawn(c)
  \/ StartSetRunning(c)
  \/ StartOnStart(c)

\* ---------------------------------------------------------------- Stop
\* StopCheck without the running() test: every Stop goes ahead
StopCheck_Unguarded(c) ==
  /\ ~panicked
  /\ UNCHANGED rl
  /\ cpc[c] = "idle"
  /\ cpc' = [cpc EXCEPT ![c] = "stop_set"]
  /\ life' = [life EXCEPT !.hookFailed = FALSE, !.clean =
                IF \E o \in Callers : InStart(o) THEN @ ELSE @ \cup {c}]
  /\ ret' = NoRet
  /\ UNCHANGED <<svc, que, cancelled, cctx, dsp, handled, deadAtDeq, dropped>>

\* if !bas.running() { return errors.New(... "is already stopped") }
StopCheck(c) ==
  /\ ~panicked
  /\ UNCHANGED rl
  /\ cpc[c] = "idle"
  /\ IF ~running
       THEN /\ ret' = <<"Stop", "already_stopped">>
            /\ UNCHANGED <<cpc, life>>
       ELSE /\ cpc' = [cpc EXCEPT ![c] = "stop_set"]
            /\ life' = [life EXCEPT !.hookFailed = FALSE, !.clean =
                          IF \E o \in Callers : InStart(o) THEN @ ELSE @ \cup {c}]
            /\ ret' = NoRet
  /\ UNCHANGED <<svc, que, cancelled, cctx, dsp, handled, deadAtDeq, dropped>>

\* bas.setRunning(false)
StopSetRunning(c) ==
  /\ ~panicked
  /\ UNCHANGED rl
  /\ cpc[c] = "stop_set"
  /\ runs' = FALSE
  /\ cpc' = [cpc EXCEPT ![c] = "stop_close"]
  /\ ret' = NoRet
  /\ UNCHANGED <<done, closed, panicked, nstart, que, cancelled, cctx, dsp, hist>>

\* StopClose that forgets close(bas.done)
StopClose_NoClose(c) ==
  /\ ~panicked
  /\ UNCHANGED rl
  /\ cpc[c] = "stop_close"
  /\ cpc' = [cpc EXCEPT ![c] = "stop_hook"]
  /\ ret' = NoRet
  /\ UNCHANGED <<svc, que, cancelled, cctx, dsp, hist>>

\* close(bas.done): closing a closed (or nil) channel panics
StopClose(c) ==
  /\ ~panicked
  /\ UNCHANGED rl
  /\ cpc[c] = "stop_close"
  /\ IF done = NilChan \/ done \in closed
       THEN /\ panicked' = TRUE
            /\ UNCHANGED <<closed, cpc>>
       ELSE /\ closed' = closed \cup {done}
            /\ cpc' = [cpc EXCEPT ![c] = "stop_hook"]
            /\ UNCHANGED panicked
  /\ ret' = NoRet
  /\ UNCHANGED <<runs, done, nstart, que, cancelled, cctx, dsp, hist>>

\* a Stop that waits for the OnRequest invocation in progress
StopOnStop_Waits(c) ==
  /\ ~panicked
  /\ UNCHANGED rl
  /\ cpc[c] = "stop_hook"
  /\ \A d \in Disps : dpc[d] # "handling"
  /\ \E e \in {"nil", "hook_error"} : ret' = <<"Stop", e>>
  /\ cpc' = [cpc EXCEPT ![c] = "idle"]
  /\ life' = [life EXCEPT !.stopReturned = TRUE,
                          !.quiet = @ \/ c \in life.clean,
                          !.clean = @ \ {c},
                          !.atStop = IF c \in life.clean
                                       THEN @ \cup {<<r, nstart>> : r \in Range(queue)}
                                       ELSE @]
  /\ UNCHANGED <<svc, que, cancelled, cctx, dsp, handled, deadAtDeq, dropped>>

\* return bas.service.OnStop()
StopOnStop(c) ==
  /\ ~panicked
  /\ UNCHANGED rl
  /\ cpc[c] = "stop_hook"
  /\ \E e \in {"nil", "hook_error"} : ret' = <<"Stop", e>>
  /\ cpc' = [cpc EXCEPT ![c] = "idle"]
  /\ life' = [life EXCEPT !.stopReturned = TRUE,
                          !.quiet = @ \/ c \in life.clean,
                          !.clean = @ \ {c},
                          !.atStop = IF c \in life.clean
                                       THEN @ \cup {<<r, nstart>> : r \in Range(queue)}
                                       ELSE @]
  /\ UNCHANGED <<svc, que, cancelled, cctx, dsp, handled, deadAtDeq, dropped>>

Stop(c) ==
  \/ StopCheck(c)
  \/ StopSetRunning(c)
  \/ StopClose(c)
  \/ StopOnStop(c)

\* ---------------------------------------------------------------- Request
\* Request calls made so far (appended or about to be)
Requested == Len(reqs) + Cardinality({c \in Callers : cpc[c] = "req_queue"})

\* RequestCheck without the running() test: every request is queued
RequestCheck_Unguarded(c, x) ==
  /\ ~panicked
  /\ UNCHANGED rl
  /\ cpc[c] = "idle"
  /\ cctx' = [cctx EXCEPT ![c] = x]
  /\ cpc' = [cpc EXCEPT ![c] = "req_queue"]
  /\ ret' = NoRet
  /\ UNCHANGED <<svc, que, cancelled, dsp, hist>>

\* Request(ctx, args): if bas.running() { bas.queueRequest(...) }
RequestCheck(c, x) ==
  /\ ~panicked
  /\ UNCHANGED rl
  /\ cpc[c] = "idle"
  /\ IF running
       THEN /\ cctx' = [cctx EXCEPT ![c] = x]
            /\ cpc' = [cpc EXCEPT ![c] = "req_queue"]
            /\ ret' = NoRet
       ELSE /\ ret' = <<"Request", "ignored">>
            /\ UNCHANGED <<cpc, cctx>>
  /\ UNCHANGED <<svc, que, cancelled, dsp, hist>>

\* a queueRequest that hands over through a one-place buffer: it waits while
\* the place is taken
queueRequest_Bounded(c) ==
  /\ ~panicked
  /\ UNCHANGED rl
  /\ cpc[c] = "req_queue"
  /\ queue = <<>>
  /\ reqs' = Append(reqs, cctx[c])
  /\ queue' = Append(queue, Len(reqs) + 1)
  /\ signal' = TRUE
  /\ cpc' = [cpc EXCEPT ![c] = "idle"]
  /\ cctx' = [cctx EXCEPT ![c] = "bg"]
  /\ ret' = NoRet
  /\ UNCHANGED <<svc, cancelled, dsp, hist>>

\* bas.queue.Append(&queuedCall{...}): push, then leave a token in Signal()
queueRequest(c) ==
  /\ ~panicked
  /\ UNCHANGED rl
  /\ cpc[c] = "req_queue"
  /\ reqs' = Append(reqs, cctx[c])
  /\ queue' = Append(queue, Len(reqs) + 1)
  /\ signal' = TRUE
  /\ cpc' = [cpc EXCEPT ![c] = "idle"]
  /\ cctx' = [cctx EXCEPT ![c] = "bg"]
  /\ ret' = NoRet
  /\ UNCHANGED <<svc, cancelled, dsp, hist>>

Request(c, x) ==
  \/ Requested < MaxReqs /\ RequestCheck(c, x)
  \/ queueRequest(c)

\* cancel() of the context.WithCancel
Cancel ==
  /\ ~panicked
  /\ UNCHANGED rl
  /\ ~cancelled
  /\ cancelled' = TRUE
  /\ ret' = NoRet
  /\ UNCHANGED <<svc, que, cpc, cctx, dsp, hist>>

\* ---------------------------------------------------------------- dispatcher
\* for { select { case <-bas.Done(): ... case <-bas.queue.Signal(): ... } }
\* the channel operands are evaluated once, on entering the select
Select(d) ==
  /\ ~panicked
  /\ UNCHANGED rl
  /\ dpc[d] = "select"
  /\ dch' = [dch EXCEPT ![d] = done]
  /\ dpc' = [dpc EXCEPT ![d] = "wait"]
  /\ ret' = NoRet
  /\ UNCHANGED <<svc, que, cancelled, cpc, cctx, delem, hist>>

\* case <-bas.Done(): return
Exit(d) ==
  /\ ~panicked
  /\ UNCHANGED rl
  /\ dpc[d] = "wait"
  /\ ChanDone(dch[d])
  /\ dpc' = [dpc EXCEPT ![d] = "exited"]
  /\ dch' = [dch EXCEPT ![d] = NilChan]
  /\ ret' = NoRet
  /\ UNCHANGED <<svc, que, cancelled, cpc, cctx, delem, hist>>

\* a dispatcher that takes the signal and goes back to its select without
\* calling queue.Process
Wake_SkipsProcess(d) ==
  /\ ~panicked
  /\ UNCHANGED rl
  /\ dpc[d] = "wait"
  /\ signal
  /\ signal' = FALSE
  /\ dpc' = [dpc EXCEPT ![d] = "select"]
  /\ dch' = [dch EXCEPT ![d] = NilChan]
  /\ ret' = NoRet
  /\ UNCHANGED <<svc, queue, reqs, cancelled, cpc, cctx, delem, hist>>

\* case <-bas.queue.Signal(): bas.queue.Process(each)
Wake(d) ==
  /\ ~panicked
  /\ UNCHANGED rl
  /\ dpc[d] = "wait"
  /\ signal
  /\ signal' = FALSE
  /\ dpc' = [dpc EXCEPT ![d] = "process"]
  /\ dch' = [dch EXCEPT ![d] = NilChan]
  /\ ret' = NoRet
  /\ UNCHANGED <<svc, queue, reqs, cancelled, cpc, cctx, delem, hist>>

\* queue.Process: element, ok := q.Next(); for ok { callback(element); ... }
\* Next leaves a token when elements remain and drains it otherwise
QueueNext(d) ==
  /\ ~panicked
  /\ UNCHANGED rl
  /\ dpc[d] = "process"
  /\ IF queue = <<>>
       THEN /\ dpc' = [dpc EXCEPT ![d] = "select"]
            /\ UNCHANGED <<queue, signal, delem, deadAtDeq>>
       ELSE /\ delem' = [delem EXCEPT ![d] = Head(queue)]
            /\ queue' = Tail(queue)
            /\ signal' = (Tail(queue) # <<>>)
            /\ dpc' = [dpc EXCEPT ![d] = "each"]
            /\ deadAtDeq' = IF CtxDone(reqs[Head(queue)])
                              THEN deadAtDeq \cup {Head(queue)}
                              ELSE deadAtDeq
  /\ ret' = NoRet
  /\ UNCHANGED <<svc, reqs, cancelled, cpc, cctx, dch, handled, dropped, life>>

\* each() with the default case missing: after a case fired the call is made
\* all the same
each_FallsThrough(d) ==
  /\ ~panicked
  /\ UNCHANGED rl
  /\ dpc[d] = "each"
  /\ IF CtxDone(reqs[delem[d]]) \/ ChanDone(done)
       THEN /\ dropped' = dropped \cup {delem[d]}
            /\ life' = [life EXCEPT !.atStop = {p \in @ : p[1] # delem[d]}]
       ELSE /\ UNCHANGED <<dropped, life>>
  /\ dpc' = [dpc EXCEPT ![d] = "call"]
  /\ ret' = NoRet
  /\ UNCHANGED <<svc, que, cancelled, cpc, cctx, dch, delem, handled, deadAtDeq>>

\* each() without the case <-ctx.Done()
each_IgnoresContext(d) ==
  /\ ~panicked
  /\ UNCHANGED rl
  /\ dpc[d] = "each"
  /\ IF ChanDone(done)
       THEN /\ delem' = [delem EXCEPT ![d] = 0]
            /\ dpc' = [dpc EXCEPT ![d] = "process"]
            /\ dropped' = dropped \cup {delem[d]}
            /\ life' = [life EXCEPT !.atStop = {p \in @ : p[1] # delem[d]}]
       ELSE /\ dpc' = [dpc EXCEPT ![d] = "call"]
            /\ UNCHANGED <<delem, dropped, life>>
  /\ ret' = NoRet
  /\ UNCHANGED <<svc, que, cancelled, cpc, cctx, dch, handled, deadAtDeq>>

\* each: select { case <-ctx.Done(): case <-bas.Done(): default: ... }
each(d) ==
  /\ ~panicked
  /\ UNCHANGED rl
  /\ dpc[d] = "each"
  /\ IF CtxDone(reqs[delem[d]]) \/ ChanDone(done)
       THEN /\ delem' = [delem EXCEPT ![d] = 0]
            /\ dpc' = [dpc EXCEPT ![d] = "process"]
            /\ dropped' = dropped \cup {delem[d]}
            /\ life' = [life EXCEPT !.atStop = {p \in @ : p[1] # delem[d]}]
       ELSE /\ dpc' = [dpc EXCEPT ![d] = "call"]
            /\ UNCHANGED <<delem, dropped, life>>
  /\ ret' = NoRet
  /\ UNCHANGED <<svc, que, cancelled, cpc, cctx, dch, handled, deadAtDeq>>

\* e.Func.Call(e.Args): OnRequest begins
OnRequest(d) ==
  /\ ~panicked
  /\ UNCHANGED rl
  /\ dpc[d] = "call"
  /\ dpc' = [dpc EXCEPT ![d] = "handling"]
  /\ handled' = Append(handled, delem[d])
  /\ life' = [life EXCEPT !.atStop = {p \in @ : p[1] # delem[d]}]
  /\ ret' = NoRet
  /\ UNCHANGED <<svc, que, cancelled, cpc, cctx, dch, delem, deadAtDeq, dropped>>

\* OnRequest returns
OnRequestReturn(d) ==
  /\ ~panicked
  /\ UNCHANGED rl
  /\ dpc[d] = "handling"
  /\ dpc' = [dpc EXCEPT ![d] = "process"]
  /\ delem' = [delem EXCEPT ![d] = 0]
  /\ ret' = NoRet
  /\ UNCHANGED <<svc, que, cancelled, cpc, cctx, dch, hist>>

processRequests(d) ==
  \/ Select(d)
  \/ Exit(d)
  \/ Wake(d)
  \/ QueueNext(d)
  \/ each(d)
  \/ OnRequest(d)
  \/ OnRequestReturn(d)

\* ---------------------------------------------------------------- Len
\* a Len that also counts the element the dispatcher holds
Len_CountsHeld == Len(queue) + Cardinality({d \in Disps : delem[d] # 0})

\* Len: return bas.queue.Len()
BaseServiceLen == Len(queue)

\* ---------------------------------------------------------------- rate limit
\* time.Second, in ticks of the clock
TicksPerSec == 2
\* the persec arguments of SetRateLimit
Rates == {0, 1, 2}
\* number of limiters SetRateLimit makes
MaxSets == 1
\* number of OnRequest invocations
MaxInv == 3
\* the clock stops here
MaxTime == 4

\* a limiter nobody has taken from yet
NoTake == -1

Max(a, b) == IF a >= b THEN a ELSE b

\* ratelimit.New(persec, WithoutSlack): one permit every time.Second / persec
Per(r) == TicksPerSec \div r

\* SetRateLimit: under rlock, bas.rlimit = nil or a new limiter
SetRateLimit(n) ==
  /\ IF n = 0
       THEN /\ rlimit' = NilLimiter
            /\ UNCHANGED lims
       ELSE /\ Len(lims) < MaxSets
            /\ lims' = Append(lims, [rate |-> n, last |-> NoTake])
            /\ rlimit' = Len(lims) + 1
  /\ hseen' = IF hpc = "check" THEN hseen \cup {rlimit'} ELSE hseen
  /\ UNCHANGED <<now, hpc, hlim, htarget, tinv>>
  /\ UNCHANGED core

\* the dispatcher calls OnRequest: one invocation at a time
HandlerInvoke ==
  /\ hpc = "idle"
  /\ Len(tinv) < MaxInv
  /\ tinv' = Append(tinv, [t |-> now, lim |-> rlimit])
  /\ hpc' = "invoked"
  /\ UNCHANGED <<rlimit, lims, now, hlim, hseen, htarget>>
  /\ UNCHANGED core

\* OnRequest calls CheckRateLimit
CheckRateLimitCall ==
  /\ hpc = "invoked"
  /\ hpc' = "check"
  /\ hseen' = {rlimit}
  /\ UNCHANGED <<rlimit, lims, now, hlim, htarget, tinv>>
  /\ UNCHANGED core

\* a CheckRateLimit that never takes from the limiter
CheckRateLimit_NoTake ==
  /\ hpc = "check"
  /\ hlim' = rlimit
  /\ hpc' = "return"
  /\ UNCHANGED <<rlimit, lims, now, hseen, htarget, tinv>>
  /\ UNCHANGED core

\* a CheckRateLimit that uses the limiter of the time OnRequest was called
CheckRateLimit_Stale ==
  /\ hpc = "check"
  /\ hlim' = tinv[Len(tinv)].lim
  /\ hpc' = IF hlim' = NilLimiter THEN "return" ELSE "take"
  /\ UNCHANGED <<rlimit, lims, now, hseen, htarget, tinv>>
  /\ UNCHANGED core

\* CheckRateLimit: under rlock, rlimit := bas.rlimit; if rlimit != nil, Take
CheckRateLimit ==
  /\ hpc = "check"
  /\ hlim' = rlimit
  /\ hpc' = IF rlimit = NilLimiter THEN "return" ELSE "take"
  /\ UNCHANGED <<rlimit, lims, now, hseen, htarget, tinv>>
  /\ UNCHANGED core

\* rlimit.Take(): the first permit is granted at once, the next ones one
\* period after the permit before
Take ==
  /\ hpc = "take"
  /\ LET l == lims[hlim]
          target == IF l.last = NoTake THEN now
                    ELSE Max(now, l.last + Per(l.rate))
     IN /\ lims' = [lims EXCEPT ![hlim].last = target]
        /\ htarget' = target
  /\ hpc' = "sleep"
  /\ UNCHANGED <<rlimit, now, hlim, hseen, tinv>>
  /\ UNCHANGED core

\* Take sleeps until its permit's time and returns
Sleep ==
  /\ hpc = "sleep"
  /\ now >= htarget
  /\ hpc' = "return"
  /\ UNCHANGED <<rlimit, lims, now, hlim, hseen, htarget, tinv>>
  /\ UNCHANGED core

\* CheckRateLimit and OnRequest return
HandlerReturn ==
  /\ hpc = "return"
  /\ hpc' = "idle"
  /\ hlim' = NilLimiter
  /\ hseen' = {}
  /\ htarget' = 0
  /\ UNCHANGED <<rlimit, lims, now, tinv>>
  /\ UNCHANGED core

\* time passes
Tick ==
  /\ now < MaxTime
  /\ now' = now + 1
  /\ UNCHANGED <<rlimit, lims, hpc, hlim, hseen, htarget, tinv>>
  /\ UNCHANGED core

\* ---------------------------------------------------------------- system
\* The whole program: one client goroutine making any sequence of calls, the
\* cancellation of its context, and the dispatcher goroutines.
Next ==
  \/ Start(Client)
  \/ Stop(Client)
  \/ \E x \in Ctxs : Request(Client, x)
  \/ Cancel
  \/ \E d \in Disps : processRequests(d)

Spec == Init /\ [][Next]_vars

\* The program with no context ever cancelled, under a fair scheduler: every
\* dispatcher goroutine that can take a step does, and every OnRequest
\* invocation returns.  The client goroutine may stop calling at any time.
FairNext ==
  \/ Start(Client)
  \/ Stop(Client)
  \/ Request(Client, "bg")
  \/ \E d \in Disps : processRequests(d)

SpecFair ==
  /\ Init
  /\ [][FairNext]_vars
  /\ \A d \in Disps : WF_vars(processRequests(d))

\* The lifecycle under concurrent callers: every caller may be anywhere in
\* Start, Stop or Request while the others run.  Start, Stop and Request read
\* and write nothing the dispatcher writes, so the dispatcher goroutines are
\* left unscheduled here.
LifeNext ==
  \/ \E c \in Callers : Start(c)
  \/ \E c \in Callers : Stop(c)
  \/ \E c \in Callers : Request(c, "bg")

SpecLife == Init /\ [][LifeNext]_vars

\* The rate limiter: a goroutine calling SetRateLimit, the sequence of
\* OnRequest invocations of one dispatcher, each calling CheckRateLimit once,
\* and the clock.
RateNext ==
  \/ \E n \in Rates : SetRateLimit(n)
  \/ HandlerInvoke
  \/ CheckRateLimitCall
  \/ CheckRateLimit
  \/ Take
  \/ Sleep
  \/ HandlerReturn
  \/ Tick

SpecRate == Init /\ [][RateNext]_vars

\* ================================================================ claims
\* the dispatcher goroutines inside OnRequest
Handling == {d \in Disps : dpc[d] = "handling"}

\* a step in which some dispatcher invokes OnRequest
Invokes == \E d \in Disps : dpc[d] = "call" /\ dpc'[d] = "handling"

\* a step in which caller c passes the check of Start, of Stop, of Request
PassesStart(c) == cpc[c] = "idle" /\ cpc'[c] = "start_go"
PassesStop(c) == cpc[c] = "idle" /\ cpc'[c] = "stop_set"
PassesRequest(c) == cpc[c] = "idle" /\ cpc'[c] = "req_queue"

\* a step in which a call returns at its check, without going any further
ReturnsAtCheck(op) == ret'[1] = op /\ cpc' = cpc

\* no Start call has been made so far
NeverStarted == nstart = 0 /\ \A c \in Callers : ~InStart(c)

\* the service as Start, Stop and Request see and change it
Lifecycle == <<runs, done, closed, panicked, nstart, dpc, dch>>

\* ---------------------------------------------------------------- C1
\* C1: in every reachable state at most one OnRequest invocation is in
\* progress.
C1_MutualExclusion == Cardinality(Handling) <= 1

\* ---------------------------------------------------------------- C2
\* C2: OnRequest is invoked on the requests of the one caller, all accepted
\* while the service was Running, in the order in which they were enqueued.
C2_FIFO ==
  \A i, j \in 1..Len(handled) : i < j => handled[i] < handled[j]

\* ---------------------------------------------------------------- C3
\* C3: OnRequest is never invoked before a Start call has returned, nor once
\* a Stop call has returned (and no Start call has been made since).
C3_InvokedOnlyBetweenStartAndStop ==
  [][Invokes => life.startReturned /\ ~life.quiet]_vars

\* ---------------------------------------------------------------- C4
\* C4 as claimed: a Request call issued before the first Start, or after a
\* successful Stop has returned, is not accepted.
C4_IgnoredAfterAnyStop ==
  [][(NeverStarted \/ life.stopReturned)
       => \A c \in Callers : ~PassesRequest(c)]_vars

\* C4 as amended: a Request call issued before the first Start call, or after
\* a successful Stop has returned with no Start call overlapping that Stop or
\* made since, is a silent no-op: it is not accepted, it returns having
\* changed neither the queue nor the service, so no OnRequest can follow.
C4_IgnoredWhenStopped ==
  [][(NeverStarted \/ life.quiet)
       => /\ \A c \in Callers : ~PassesRequest(c)
          /\ ReturnsAtCheck("Request")
               => /\ ret'[2] = "ignored"
                  /\ UNCHANGED <<que, Lifecycle, handled>>]_vars

\* a Request has just been ignored after a Stop that returned
C4_Witness == ret = <<"Request", "ignored">> /\ life.quiet

\* ---------------------------------------------------------------- C5
\* C5 as claimed: once a Stop has succeeded, every later Start call is
\* rejected: none passes its check.
C5_StoppedIsTerminal ==
  [][life.stopReturned => \A c \in Callers : ~PassesStart(c)]_vars

\* C5 as amended: Start is rejected only while the service is Running; a
\* Start call made after a successful Stop goes ahead: it makes a done channel
\* that is new and open, spawns one more dispatcher, and then sets the state
\* to Running again.
C5_StartAfterStopRestarts ==
  [][/\ ReturnsAtCheck("Start") => runs
     /\ \A c \in Callers :
          /\ cpc[c] = "start_go" /\ cpc'[c] # "start_go"
               => /\ cpc'[c] = "start_set"
                  /\ nstart' = nstart + 1
                  /\ done' \notin (1..nstart) \cup closed \cup {NilChan}
                  /\ dpc[nstart'] = "none" /\ dpc'[nstart'] = "select"
          /\ cpc[c] = "start_set" /\ cpc'[c] # "start_set"
               => cpc'[c] = "start_hook" /\ runs']_vars

\* a Start made after a Stop returned has restarted the service
C5_Witness ==
  /\ life.stopReturned
  /\ nstart = 2
  /\ runs
  /\ done = 2
  /\ closed = {1}
  /\ ret = <<"Start", "nil">>

\* ---------------------------------------------------------------- C6
\* C6: a Start call on a Running service does not pass its check; it returns
\* the error "already started" and changes nothing: the state stays Running,
\* no dispatcher is spawned, the done channel is kept, OnStart is not invoked.
C6_StartWhileRunningRejected ==
  [][runs
       => /\ \A c \in Callers : ~PassesStart(c)
          /\ ReturnsAtCheck("Start")
               => /\ ret'[2] = "already_started"
                  /\ runs'
                  /\ UNCHANGED <<Lifecycle, que, life>>]_vars

\* a Start has just been rejected on a Running service
C6_Witness == ret = <<"Start", "already_started">> /\ runs /\ nstart = 1

\* ---------------------------------------------------------------- C7
\* C7: a Stop call on a service that is not Running does not pass its check;
\* it returns the error "already stopped" and changes nothing: the done
\* channel is not closed by it, the state stays as it is, OnStop is not
\* invoked.
C7_StopWhileNotRunningRejected ==
  [][~runs
       => /\ \A c \in Callers : ~PassesStop(c)
          /\ ReturnsAtCheck("Stop")
               => /\ ret'[2] = "already_stopped"
                  /\ ~runs'
                  /\ UNCHANGED <<Lifecycle, que, life>>]_vars

\* a second Stop has just been rejected on a stopped service
C7_Witness ==
  /\ ret = <<"Stop", "already_stopped">>
  /\ life.stopReturned
  /\ closed = {1}
  /\ ~runs

\* ---------------------------------------------------------------- C8
\* C8: no Stop call closes a done channel that is already closed (which in Go
\* is the panic "close of closed channel").
C8_DoneClosedAtMostOnce == ~panicked

\* ---------------------------------------------------------------- C9
\* C9 as claimed: whenever a Stop has returned without error, the channel
\* that Done returns is closed.
C9_DoneClosedAtReturn == ret = <<"Stop", "nil">> => ChanDone(done)

\* C9 as amended: a Stop that passes its check sets the state to not Running,
\* then closes the done channel, then invokes OnStop; once a Stop that no
\* Start call overlapped has returned, the state is not Running and the
\* channel that Done returns is closed, until a later Start call.
C9_StopOrder ==
  \A c \in Callers :
    /\ cpc[c] = "stop_set" /\ cpc'[c] # "stop_set"
         => cpc'[c] = "stop_close" /\ ~runs' /\ closed' = closed
    /\ cpc[c] = "stop_close" /\ cpc'[c] # "stop_close"
         => /\ cpc'[c] = "stop_hook"
            /\ done \notin closed /\ closed' = closed \cup {done}
            /\ ret' = NoRet
    /\ cpc[c] = "stop_hook" /\ cpc'[c] # "stop_hook"
         => cpc'[c] = "idle" /\ ret'[1] = "Stop" /\ closed' = closed

C9_StopSetsClosesThenHooks ==
  /\ [][C9_StopOrder]_vars
  /\ [](life.quiet => ~runs /\ ChanDone(done))

\* a Stop has just returned without error and Done is closed
C9_Witness == ret = <<"Stop", "nil">> /\ life.quiet /\ ChanDone(done)

\* ---------------------------------------------------------------- C10
\* C10: a request whose context was cancelled when it was dequeued is never
\* handed to OnRequest, and the requests enqueued after it are handled in the
\* order in which they were enqueued.
C10_CancelledDroppedRestFIFO ==
  \A r \in deadAtDeq :
    /\ r \notin Range(handled)
    /\ \A i, j \in 1..Len(handled) :
         i < j /\ handled[i] > r /\ handled[j] > r => handled[i] < handled[j]

\* the part of C10 that holds of the code: the cancelled request is dropped,
\* and the dispatcher that drops it goes on to the next element
C10_CancelledNeverHandled == deadAtDeq \cap Range(handled) = {}

C10_DropGoesOn ==
  [][\A d \in Disps :
       dpc[d] = "each" /\ delem[d] \in deadAtDeq /\ dpc'[d] # "each"
         => dpc'[d] = "process"]_vars

\* ---------------------------------------------------------------- C11
\* the requests the dispatchers took from the queue: handed to OnRequest,
\* dropped by each(), or held between the two
Held == {delem[d] : d \in Disps} \ {0}
Dequeued == Range(handled) \cup dropped \cup Held

\* C11: Len() is the number of accepted requests no dispatcher has dequeued
\* yet; the request OnRequest is working on is not counted, and Len() is 0
\* once every accepted request has been dequeued.
C11_LenCountsQueued ==
  BaseServiceLen = Cardinality((1..Len(reqs)) \ Dequeued)

\* three requests accepted, the handler still inside the first: Len() = 2
C11_Witness ==
  /\ Len(reqs) = 3
  /\ handled = <<1>>
  /\ \E d \in Disps : dpc[d] = "handling" /\ delem[d] = 1
  /\ BaseServiceLen = 2

\* ---------------------------------------------------------------- C12
\* limiter 1, of rate r, was installed before the first invocation and
\* SetRateLimit has not been called since
Stable(r) ==
  /\ r > 0
  /\ Len(lims) = 1
  /\ lims[1].rate = r
  /\ rlimit = 1
  /\ \A i \in DOMAIN tinv : tinv[i].lim = 1

\* at least n periods of rate r lie between the 1st and the k-th invocation
Apart(r, k, n) == (tinv[k].t - tinv[1].t) * r >= n * TicksPerSec

\* C12 as stated: with the rate limit r, at least (k-1)/r elapses between
\* the 1st and the k-th of k sequential invocations
C12_ElapsedKMinus1 ==
  \A r \in Rates : \A k \in DOMAIN tinv : Stable(r) => Apart(r, k, k - 1)

\* C12: with the rate limit r, at least (k-2)/r elapses between the 1st and
\* the k-th of k sequential invocations (k >= 2), and the first Take of a
\* new limiter does not wait
C12_ElapsedKMinus2 ==
  /\ [](\A r \in Rates : \A k \in DOMAIN tinv :
          Stable(r) /\ k >= 2 => Apart(r, k, k - 2))
  /\ [][hpc = "take" /\ hpc' = "sleep" /\ lims[hlim].last = NoTake
          => htarget' = now]_vars

\* rate 1: the third invocation begins one period, not two, after the first
C12_Witness ==
  /\ Stable(1)
  /\ Len(tinv) = 3
  /\ tinv[3].t - tinv[1].t = Per(1)
  /\ hpc = "sleep"

\* ---------------------------------------------------------------- C13
\* CheckRateLimit has read bas.rlimit and not returned yet
AfterRead == hpc \in {"take", "sleep", "return"}

\* C13: CheckRateLimit uses the limiter bas.rlimit held when it was called
\* or one installed since; when that is nil (SetRateLimit(0)) it returns
\* without taking a permit from any limiter.
C13_UsesInstalledLimiter ==
  /\ [](AfterRead => hlim \in hseen)
  /\ [][hpc = "check" /\ hpc' # "check" /\ hlim' = NilLimiter
          => hpc' = "return" /\ lims' = lims]_vars

\* SetRateLimit(n), OnRequest called, SetRateLimit(0), then OnRequest called
\* CheckRateLimit, which returned without a permit
C13_Witness ==
  /\ tinv # <<>>
  /\ tinv[Len(tinv)].lim = 1
  /\ hseen = {NilLimiter}
  /\ hpc = "return"
  /\ hlim = NilLimiter

\* ---------------------------------------------------------------- C14
\* the dispatcher goroutine of the latest Start has not returned
DispatcherActive == nstart > 0 /\ dpc[nstart] \notin {"none", "exited"}

\* C14: when OnStart fails, Start returns its error with the service Running
\* and the dispatcher spawned; until a Stop, Request is accepted and Start is
\* rejected as already started.
C14_FailedStartStaysRunning ==
  /\ [](ret = <<"Start", "hook_error">> => life.hookFailed)
  /\ [](life.hookFailed => runs /\ DispatcherActive)
  /\ [][life.hookFailed =>
          /\ ret' # <<"Request", "ignored">>
          /\ ret'[1] = "Start" => ret' = <<"Start", "already_started">>
          /\ \A c \in Callers : ~PassesStart(c)]_vars

\* the first Start returned the error of OnStart, and a request has been
\* handed to OnRequest since
C14_Witness ==
  /\ life.hookFailed
  /\ nstart = 1
  /\ handled # <<>>

\* ---------------------------------------------------------------- C15
\* a caller inside Stop can always take its next step, whatever the
\* dispatchers are doing
StopNeverWaits == \A c \in Callers : InStop(c) /\ ~panicked => ENABLED Stop(c)

\* C15 as stated: Stop never waits for the dispatcher, and a request that was
\* in the queue when Stop returned is never handed to OnRequest.
C15_QueuedAtStopNeverHandled ==
  /\ []StopNeverWaits
  /\ [][\A d \in Disps : dpc[d] = "call" /\ dpc'[d] = "handling" =>
          \A p \in life.atStop : p[1] # delem[d]]_vars

\* C15: Stop never waits for the dispatcher, and a request that was in the
\* queue when Stop returned is handed to OnRequest only after a later Start
\* call has passed its running() check.
C15_QueuedAtStopWaitsForStart ==
  /\ []StopNeverWaits
  /\ [][\A d \in Disps : dpc[d] = "call" /\ dpc'[d] = "handling" =>
          \A p \in life.atStop :
             p[1] = delem[d] => nstart + PendingStarts > p[2]]_vars

\* Stop returns with a request in the queue while OnRequest is in progress
C15_Witness ==
  /\ ret[1] = "Stop"
  /\ ret[2] \in {"nil", "hook_error"}
  /\ Handling # {}
  /\ life.atStop # {}

\* ---------------------------------------------------------------- C16
\* (the n-th Start makes channel n and spawns dispatcher n)
\* C16: once the done channel of its Start is closed, a dispatcher exits, at
\* once if it is idle and when OnRequest returns otherwise.
C16_DispatcherExits ==
  \A d \in Disps : [](ChanDone(d) => <>(dpc[d] = "exited"))

\* C16, in a form a finite run refutes: a dispatcher that is idle in its
\* select after the done channel of its Start was closed can exit.
C16_IdleDispatcherCanExit ==
  \A d \in Disps : ChanDone(d) /\ dpc[d] = "wait" => ChanDone(dch[d])

\* ---------------------------------------------------------------- C17
\* some dispatcher is between queue.Process and its return
Processing == \E d \in Disps : dpc[d] \in {"process", "each", "call", "handling"}

\* the context of request r is cancelled
Dead(r) == r \in DOMAIN reqs /\ CtxDone(reqs[r])

AtEach == {delem[d] : d \in {e \in Disps : dpc[e] = "each"}}

\* C18: the context is looked at once, after the dequeue.  A request whose
\* context was cancelled when it was dequeued is dropped; a cancellation
\* during OnRequest leaves the invocation alone, and it ends only by
\* returning.
C18_CancelCheckedAtDequeue ==
  /\ [](deadAtDeq \subseteq dropped \cup AtEach)
  /\ [][\A d \in Disps : dpc[d] = "handling" =>
          /\ delem'[d] = delem[d] \/ dpc'[d] = "process"
          /\ dpc'[d] \in {"handling", "process"}
          /\ cancelled' # cancelled => dpc'[d] = "handling"
          /\ handled' = handled \/ Invokes]_vars

\* the first request was handed to OnRequest and has returned; the second,
\* of the same context, was dequeued after the cancellation and dropped
C18_Witness ==
  /\ cancelled
  /\ nstart = 1
  /\ Len(reqs) >= 2 /\ reqs[1] = "c" /\ reqs[2] = "c"
  /\ handled = <<1>>
  /\ Handling = {}
  /\ 2 \in deadAtDeq \cap dropped

\* ---------------------------------------------------------------- C19
\* C19: a Request that passed its running() test can always append and
\* return, whatever the dispatchers are doing and however long the queue is.
C19_RequestNeverBlocks ==
  /\ [](\A c \in Callers :
          cpc[c] = "req_queue" /\ ~panicked => ENABLED queueRequest(c))
  /\ [][\A c \in Callers : cpc[c] = "req_queue" /\ cpc'[c] # "req_queue" =>
          cpc'[c] = "idle" /\ Len(queue') = Len(queue) + 1]_vars

\* a Request about to append while OnRequest is in progress and requests wait
C19_Witness ==
  /\ cpc[Client] = "req_queue"
  /\ Handling # {}
  /\ Len(queue) >= 1

\* ---------------------------------------------------------------- C20
\* the number of times request r was handed to OnRequest
Times(r) == Cardinality({i \in DOMAIN handled : handled[i] = r})

\* the places request r is in: the queue, a dispatcher, handled, dropped
Places(r) ==
  Cardinality({i \in DOMAIN queue : queue[i] = r})
  + Cardinality({d \in Disps : delem[d] = r /\ dpc[d] \in {"each", "call"}})
  + Times(r)
  + (IF r \in dropped THEN 1 ELSE 0)

\* C20: an accepted request is in exactly one place: waiting in the queue,
\* held by one dispatcher, handed to OnRequest once, or dropped.  So it is
\* dequeued once, and handled at most once and never both handled and dropped.
C20_AtMostOnce ==
  \A r \in DOMAIN reqs : Places(r) = 1 /\ Times(r) <= 1

\* of three requests one was handled and one dropped after a Stop
C20_Witness ==
  /\ Len(reqs) = 3
  /\ Len(handled) >= 1
  /\ dropped # {}
  /\ life.stopReturned

TypeOK ==
  /\ runs \in BOOLEAN
  /\ done \in {NilChan} \cup Chans
  /\ closed \subseteq Chans
  /\ nstart \in 0..MaxStarts
  /\ Len(reqs) <= MaxReqs
====
